---------------------------- MODULE Spec2Model ----------------------------
(***************************************************************************)
(* The Echoes component (components/Echoes.tsx) and its session store.     *)
(*                                                                         *)
(* State: the component's useState cells, the localStorage slot            *)
(* 'echoes_active_session', and the promises / image loads in flight.      *)
(* Every handler is one action; the Save Session effect, which React runs  *)
(* after the render that follows a handler, is part of the action          *)
(* (operator Commit).                                                      *)
(***************************************************************************)
EXTENDS Integers, Sequences, FiniteSets, TLC

(***************************************************************************)
(* Bounds                                                                  *)
(***************************************************************************)
MaxTexts == 4        \* distinct texts that reach the input field
MaxKey == 2          \* distinct results the curation service can return
MaxSeed == 1         \* distinct seeds drawn by generateEchoArtifact
MaxInFlight == 2     \* requests (retrievals, syntheses, image loads) in flight at once
MaxEchoes == 3       \* echoes in the result drawn by handleDownloadCard

VARIABLES
    mounted,         \* the mount effects (Restore Session, Save Session) have run
    crashed,         \* a render threw: React unmounted the tree
    input,           \* useState('')
    loading,         \* useState(false)
    data,            \* useState<EchoData | null>(null)
    error,           \* useState('')
    view,            \* useState<ViewState>('input')
    synthesisImage,  \* useState<string | null>(null)
    storage,         \* localStorage slot 'echoes_active_session'
    retrievals,      \* pending findEchoesForFeeling promises, oldest first
    syntheses,       \* pending generateEchoArtifact promises / image loads, oldest first
    pre,             \* history: the state just before the findEcho call of the last step
    sinceReset,      \* history: handleReset ran and no findEcho was accepted since
    card             \* handleDownloadCard: its canvas and its position in the routine

vars == <<mounted, crashed, input, loading, data, error, view, synthesisImage,
          storage, retrievals, syntheses, pre, sinceReset, card>>

\* the cells of the component and the requests in flight
session == <<mounted, crashed, input, loading, data, error, view, synthesisImage,
             storage, retrievals, syntheses, pre, sinceReset>>

(***************************************************************************)
(* Texts: strings are sequences of characters, so that trim() is computed. *)
(***************************************************************************)
\* the texts that reach the input field: empty, whitespace-only, plain, and
\* with leading or trailing whitespace
TextPool ==
    << <<>>, <<" ">>, <<"a">>, <<" ", "a">>, <<"a", " ">>, <<"a", "a">>,
       <<" ", " ">>, <<"a", " ", "a">> >>

Texts == {TextPool[n] : n \in 1..MaxTexts}

RECURSIVE TrimStart(_)
TrimStart(s) == IF s # <<>> /\ Head(s) = " " THEN TrimStart(Tail(s)) ELSE s

RECURSIVE TrimEnd(_)
TrimEnd(s) ==
    IF s # <<>> /\ s[Len(s)] = " " THEN TrimEnd(SubSeq(s, 1, Len(s) - 1)) ELSE s

Trim(s) == TrimEnd(TrimStart(s))

\* DRIFT_CONCEPTS: fixed sentences, none with leading or trailing whitespace
DRIFT_CONCEPTS == {t \in Texts : t # <<>> /\ t[1] # " " /\ t[Len(t)] # " "}

(***************************************************************************)
(* JavaScript / JSON values held in state cells and in the stored snapshot *)
(***************************************************************************)
JUndefined == [t |-> "undefined"]
JNull == [t |-> "null"]
JNumber == [t |-> "number"]
JString(s) == [t |-> "string", s |-> s]
JView(v) == [t |-> "view", s |-> v]

\* EchoData values the curation service returns
EchoData == {[t |-> "echo", thematic_key |-> k] : k \in 1..MaxKey}

\* a truthy value that is not an EchoData (no echoes array)
BadShape == [t |-> "bad"]

\* the URL generateEchoArtifact builds from the prompt and a random seed
ImageUrl(d, seed) == [t |-> "url", prompt |-> d.thematic_key, seed |-> seed]

ImageUrls == {ImageUrl(d, s) : d \in EchoData, s \in 1..MaxSeed}

Truthy(v) ==
    CASE v.t \in {"undefined", "null"} -> FALSE
      [] v.t = "string" -> v.s # <<>>
      [] v.t = "view" -> v.s # ""
      [] OTHER -> TRUE

ViewState == {"input", "echo", "synthesizing", "artifact"}

ERR_ARCHIVE == "The archive is silent. Please try again."
ERR_RENDER == "Unable to render artifact."
ERR_SYNTH == "Unable to synthesize artifact visual. Try again."

(***************************************************************************)
(* The persistence slot                                                    *)
(***************************************************************************)
NoItem == [kind |-> "none"]              \* getItem returns null
EmptyItem == [kind |-> "empty"]          \* the empty string
GarbageItem == [kind |-> "garbage"]      \* text JSON.parse rejects
JsonItem(v) == [kind |-> "json", value |-> v]

JObject(d, i, v, s) ==
    [t |-> "object", data |-> d, input |-> i, view |-> v, synthesisImage |-> s]

\* a stringify that leaves the input field out of the snapshot
Stringify_NoInput(d, i, v, s) == JsonItem(JObject(d, JUndefined, JView(v), s))

\* JSON.stringify({data, input, view, synthesisImage})
Stringify(d, i, v, s) == JsonItem(JObject(d, JString(i), JView(v), s))

\* slot contents found at startup: anything an earlier version or another
\* script of the origin may have left there
StoredViews == {JUndefined, JView("")} \cup {JView(v) : v \in ViewState \cup {"bogus"}}

\* parsed objects: without a usable data field the other fields are never
\* read, so those objects carry none
StoredObjects ==
    {JObject(d, JUndefined, JUndefined, JUndefined) : d \in {JUndefined, JNull}}
        \cup
    {JObject(d, i, v, s) :
        d \in {BadShape} \cup EchoData,
        i \in {JUndefined} \cup {JString(x) : x \in Texts},
        v \in StoredViews,
        s \in {JUndefined, JNull} \cup ImageUrls}

SlotContents ==
    {NoItem, EmptyItem, GarbageItem, JsonItem(JNull), JsonItem(JNumber)}
        \cup {JsonItem(o) : o \in StoredObjects}

(***************************************************************************)
(* Restore Session effect: the state cells it leaves, given the slot       *)
(***************************************************************************)
InitialCells == [data |-> JNull, input |-> <<>>, view |-> "input", synthesisImage |-> JNull]

RestoreSession(slot) ==
    IF slot.kind \in {"none", "empty"} THEN InitialCells        \* if (savedSession)
    ELSE IF slot.kind = "garbage" THEN InitialCells             \* JSON.parse throws
    ELSE LET parsed == slot.value IN
         IF parsed.t = "null" THEN InitialCells                 \* parsed.data throws
         ELSE IF parsed.t # "object" THEN InitialCells          \* parsed.data undefined
         ELSE IF ~Truthy(parsed.data) THEN InitialCells
         ELSE [data |-> parsed.data,
               input |-> IF Truthy(parsed.input) THEN parsed.input.s ELSE <<>>,
               view |-> IF Truthy(parsed.view) THEN parsed.view.s ELSE "echo",
               synthesisImage |->
                   IF parsed.view = JView("artifact") /\ Truthy(parsed.synthesisImage)
                   THEN parsed.synthesisImage ELSE JNull]

(***************************************************************************)
(* Save Session effect: the slot after the effect ran on the given cells   *)
(***************************************************************************)
SaveSession(d, i, v, s, slot) == IF Truthy(d) THEN Stringify(d, i, v, s) ELSE slot

\* the render reads data.echoes in the echo view and in the artifact view
RenderThrows(v, d, s) ==
    \/ v = "echo" /\ Truthy(d) /\ d.t # "echo"
    \/ v = "artifact" /\ Truthy(s) /\ Truthy(d) /\ d.t # "echo"

\* render after a handler, then the effects of the committed render; slot is
\* the slot as the handler left it
Commit(slot) ==
    /\ crashed' = RenderThrows(view', data', synthesisImage')
    /\ storage' = IF crashed' THEN slot
                  ELSE SaveSession(data', input', view', synthesisImage', slot)

\* the await in generateArtifact resumes in a microtask: no other task runs
\* while a synthesis is still at that await
Quiescent == \A k \in DOMAIN syntheses : syntheses[k].stage # "request"

Live == mounted /\ ~crashed /\ Quiescent

RemoveAt(s, k) == SubSeq(s, 1, k - 1) \o SubSeq(s, k + 1, Len(s))

NoPre == [set |-> FALSE]

Before ==
    [set |-> TRUE, view |-> view, data |-> data, input |-> input, error |-> error,
     loading |-> loading, synthesisImage |-> synthesisImage, storage |-> storage,
     requests |-> Len(retrievals)]

(***************************************************************************)
(* handleDownloadCard: the composite card                                  *)
(***************************************************************************)
CARD_WIDTH == 1200
TRACKLIST_BASE == 150
ROW_HEIGHT == 80
HEADING_OFFSET == 80

\* the height kept at the value of three echoes
CardHeight_Fixed(n) == CARD_WIDTH + (TRACKLIST_BASE + (3 * ROW_HEIGHT))

\* const height = width + tracklistHeight
CardHeight(n) == CARD_WIDTH + (TRACKLIST_BASE + (n * ROW_HEIGHT))

\* no download routine running; echoes is data.echoes.length of the held result
IdleCard(n) ==
    [pc |-> "idle", echoes |-> n, width |-> 0, height |-> 0, drawn |-> 0,
     row |-> 0, currentY |-> 0, file |-> "none"]

NoCard == IdleCard(0)

(***************************************************************************)
(* Init: the component constructed, effects not yet run                    *)
(***************************************************************************)
Init ==
    /\ mounted = FALSE
    /\ crashed = FALSE
    /\ input = <<>>
    /\ loading = FALSE
    /\ data = JNull
    /\ error = ""
    /\ view = "input"
    /\ synthesisImage = JNull
    /\ storage \in SlotContents
    /\ retrievals = <<>>
    /\ syntheses = <<>>
    /\ pre = NoPre
    /\ sinceReset = FALSE
    /\ card = NoCard

\* first render committed: Restore Session effect, then Save Session effect
Mount ==
    /\ ~mounted /\ ~crashed
    /\ LET r == RestoreSession(storage) IN
        /\ data' = r.data
        /\ input' = r.input
        /\ view' = r.view
        /\ synthesisImage' = r.synthesisImage
    /\ mounted' = TRUE
    /\ pre' = NoPre
    /\ UNCHANGED card
    /\ UNCHANGED <<loading, error, retrievals, syntheses, sinceReset>>
    /\ Commit(storage)

\* page reload: the component is constructed anew, pending callbacks are gone
Restart ==
    /\ mounted \/ crashed
    /\ Quiescent
    /\ mounted' = FALSE
    /\ crashed' = FALSE
    /\ input' = <<>>
    /\ loading' = FALSE
    /\ data' = JNull
    /\ error' = ""
    /\ view' = "input"
    /\ synthesisImage' = JNull
    /\ retrievals' = <<>>
    /\ syntheses' = <<>>
    /\ pre' = NoPre
    /\ UNCHANGED card
    /\ UNCHANGED <<storage, sinceReset>>

\* input onChange
Type(t) ==
    /\ Live /\ view = "input"
    /\ input' = t
    /\ pre' = NoPre
    /\ UNCHANGED card
    /\ UNCHANGED <<mounted, loading, data, error, view, synthesisImage,
                   retrievals, syntheses, sinceReset>>
    /\ Commit(storage)

handleDrift(c) ==
    /\ Live /\ view = "input"
    /\ input' = c
    /\ pre' = NoPre
    /\ UNCHANGED card
    /\ UNCHANGED <<mounted, loading, data, error, view, synthesisImage,
                   retrievals, syntheses, sinceReset>>
    /\ Commit(storage)

\* the guard without the trim(): only the empty string is rejected
Rejected_NoTrim(searchTerm) == searchTerm = <<>>

\* if (!searchTerm || !searchTerm.trim()) return
Rejected(searchTerm) == searchTerm = <<>> \/ Trim(searchTerm) = <<>>

\* findEcho() up to the await
findEcho ==
    LET searchTerm == input IN
    /\ pre' = Before
    /\ UNCHANGED card
    /\ IF Rejected(searchTerm)
       THEN UNCHANGED <<mounted, crashed, input, loading, data, error, view,
                        synthesisImage, storage, retrievals, syntheses, sinceReset>>
       ELSE /\ Len(retrievals) + Len(syntheses) < MaxInFlight
            /\ loading' = TRUE
            /\ error' = ""
            /\ synthesisImage' = JNull
            /\ retrievals' = Append(retrievals, [feeling |-> searchTerm, from |-> view])
            /\ sinceReset' = FALSE
            /\ UNCHANGED <<mounted, input, data, view, syntheses>>
            /\ Commit(storage)

\* the arrow button of the input view
SubmitClick ==
    /\ Live /\ view = "input"
    /\ ~(loading \/ Trim(input) = <<>>)
    /\ findEcho

\* Enter in the input field
EnterKey ==
    /\ Live /\ view = "input"
    /\ findEcho

\* the Reshuffle button of the echo view
Reshuffle ==
    /\ Live /\ view = "echo" /\ Truthy(data)
    /\ ~loading
    /\ findEcho

\* findEchoesForFeeling resolved with resultData
RetrievalSuccess(k, resultData) ==
    /\ Live /\ k \in DOMAIN retrievals
    /\ data' = resultData
    /\ view' = "echo"
    /\ loading' = FALSE
    /\ retrievals' = RemoveAt(retrievals, k)
    /\ pre' = NoPre
    /\ UNCHANGED card
    /\ UNCHANGED <<mounted, input, error, synthesisImage, syntheses, sinceReset>>
    /\ Commit(storage)

\* a catch that sends the request again
RetrievalFailure_Retry(k) ==
    /\ Live /\ k \in DOMAIN retrievals
    /\ error' = ERR_ARCHIVE
    /\ loading' = TRUE
    /\ retrievals' = Append(RemoveAt(retrievals, k), retrievals[k])
    /\ pre' = NoPre
    /\ UNCHANGED card
    /\ UNCHANGED <<mounted, input, data, view, synthesisImage, syntheses, sinceReset>>
    /\ Commit(storage)

\* findEchoesForFeeling rejected
RetrievalFailure(k) ==
    /\ Live /\ k \in DOMAIN retrievals
    /\ error' = ERR_ARCHIVE
    /\ loading' = FALSE
    /\ retrievals' = RemoveAt(retrievals, k)
    /\ pre' = NoPre
    /\ UNCHANGED card
    /\ UNCHANGED <<mounted, input, data, view, synthesisImage, syntheses, sinceReset>>
    /\ Commit(storage)

\* generateArtifact() up to the await; the Sit-with-this button of the echo view
generateArtifact ==
    /\ Live /\ view = "echo" /\ Truthy(data)
    /\ Len(retrievals) + Len(syntheses) < MaxInFlight
    /\ view' = "synthesizing"
    /\ \E seed \in 1..MaxSeed :
          syntheses' = Append(syntheses,
                              [stage |-> "request", data |-> data,
                               imageUrl |-> ImageUrl(data, seed)])
    /\ pre' = NoPre
    /\ UNCHANGED card
    /\ UNCHANGED <<mounted, input, loading, data, error, synthesisImage,
                   retrievals, sinceReset>>
    /\ Commit(storage)

\* the await resumes and the URL is stored without waiting for the load
ArtifactUrl_NoVerify(k) ==
    /\ mounted /\ ~crashed /\ k \in DOMAIN syntheses
    /\ syntheses[k].stage = "request"
    /\ synthesisImage' = syntheses[k].imageUrl
    /\ view' = "artifact"
    /\ syntheses' = RemoveAt(syntheses, k)
    /\ pre' = NoPre
    /\ UNCHANGED card
    /\ UNCHANGED <<mounted, input, loading, data, error, retrievals, sinceReset>>
    /\ Commit(storage)

\* the await resumes with imageUrl: new Image(), img.src = imageUrl
ArtifactUrl(k) ==
    /\ mounted /\ ~crashed /\ k \in DOMAIN syntheses
    /\ syntheses[k].stage = "request"
    /\ syntheses' = [syntheses EXCEPT ![k].stage = "load"]
    /\ pre' = NoPre
    /\ UNCHANGED card
    /\ UNCHANGED <<mounted, crashed, input, loading, data, error, view,
                   synthesisImage, storage, retrievals, sinceReset>>

\* the await throws: catch (err)
ArtifactError(k) ==
    /\ mounted /\ ~crashed /\ k \in DOMAIN syntheses
    /\ syntheses[k].stage = "request"
    /\ error' = ERR_SYNTH
    /\ view' = "echo"
    /\ syntheses' = RemoveAt(syntheses, k)
    /\ pre' = NoPre
    /\ UNCHANGED card
    /\ UNCHANGED <<mounted, input, loading, data, synthesisImage, retrievals, sinceReset>>
    /\ Commit(storage)

\* img.onload
ImageLoad(k) ==
    /\ Live /\ k \in DOMAIN syntheses
    /\ syntheses[k].stage = "load"
    /\ synthesisImage' = syntheses[k].imageUrl
    /\ view' = "artifact"
    /\ syntheses' = RemoveAt(syntheses, k)
    /\ pre' = NoPre
    /\ UNCHANGED card
    /\ UNCHANGED <<mounted, input, loading, data, error, retrievals, sinceReset>>
    /\ Commit(storage)

\* img.onerror
ImageError(k) ==
    /\ Live /\ k \in DOMAIN syntheses
    /\ syntheses[k].stage = "load"
    /\ error' = ERR_RENDER
    /\ view' = "echo"
    /\ syntheses' = RemoveAt(syntheses, k)
    /\ pre' = NoPre
    /\ UNCHANGED card
    /\ UNCHANGED <<mounted, input, loading, data, synthesisImage, retrievals, sinceReset>>
    /\ Commit(storage)

\* the logo and the Trace Another buttons
handleReset ==
    /\ Live
    /\ data' = JNull
    /\ input' = <<>>
    /\ view' = "input"
    /\ synthesisImage' = JNull
    /\ sinceReset' = TRUE
    /\ pre' = NoPre
    /\ UNCHANGED card
    /\ UNCHANGED <<mounted, loading, error, retrievals, syntheses>>
    /\ Commit(NoItem)                     \* localStorage.removeItem

\* an else in place of the else-if: every other view goes to 'input'
BackTarget_Else(v) == IF v = "artifact" THEN "echo" ELSE "input"

\* if (view === 'artifact') ... else if (view === 'echo') ...
BackTarget(v) ==
    IF v = "artifact" THEN "echo"
    ELSE IF v = "echo" THEN "input" ELSE v

\* the back button, rendered when view !== 'input'
handleBack ==
    /\ Live /\ view # "input"
    /\ view' = BackTarget(view)
    /\ pre' = NoPre
    /\ UNCHANGED card
    /\ UNCHANGED <<mounted, input, loading, data, error, synthesisImage,
                   retrievals, syntheses, sinceReset>>
    /\ Commit(storage)

Next ==
    \/ Mount
    \/ Restart
    \/ \E t \in Texts : Type(t)
    \/ \E c \in DRIFT_CONCEPTS : handleDrift(c)
    \/ SubmitClick
    \/ EnterKey
    \/ Reshuffle
    \/ \E k \in 1..MaxInFlight, d \in EchoData : RetrievalSuccess(k, d)
    \/ \E k \in 1..MaxInFlight : RetrievalFailure(k)
    \/ generateArtifact
    \/ \E k \in 1..MaxInFlight : ArtifactUrl(k)
    \/ \E k \in 1..MaxInFlight : ArtifactError(k)
    \/ \E k \in 1..MaxInFlight : ImageLoad(k)
    \/ \E k \in 1..MaxInFlight : ImageError(k)
    \/ handleReset
    \/ handleBack

Spec == Init /\ [][Next]_vars

\* a first visit: nothing is stored before the session starts
InitFresh == Init /\ storage = NoItem

SpecFresh == InitFresh /\ [][Next]_vars

(***************************************************************************)
(* Properties                                                              *)
(***************************************************************************)
StoredInput(slot) ==
    IF slot.kind = "json" /\ slot.value.t = "object" THEN slot.value.input ELSE JUndefined

WhitespaceOnly(s) == \A j \in DOMAIN s : s[j] = " "

\* C1: when a retrieval submitted in the input view succeeds, the view becomes
\* 'echo', the held result is the retrieved one and the snapshot persisted
\* afterwards has an input field equal to the text sent to the retrieval call,
\* whatever happened while the request was in flight.
C1_SnapshotInputIsSubmittedText ==
    [][\A k \in DOMAIN retrievals, d \in EchoData :
          (RetrievalSuccess(k, d) /\ retrievals[k].from = "input") =>
              /\ view' = "echo"
              /\ data' = d
              /\ StoredInput(storage') = JString(retrievals[k].feeling)]_vars

\* C2: a findEcho call (submit, Enter, reshuffle) on an empty or
\* whitespace-only input issues no retrieval request and leaves view, result,
\* input, error, loading, artifact image and the persisted snapshot unchanged.
C2_BlankSubmitIsNoOp ==
    (pre.set /\ WhitespaceOnly(pre.input)) =>
        /\ Len(retrievals) = pre.requests
        /\ view = pre.view
        /\ data = pre.data
        /\ input = pre.input
        /\ error = pre.error
        /\ loading = pre.loading
        /\ synthesisImage = pre.synthesisImage
        /\ storage = pre.storage

\* a reshuffle was just invoked on a whitespace-only input with a result held
C2_Witness ==
    /\ pre.set
    /\ pre.input = <<" ">>
    /\ pre.view = "echo"
    /\ Truthy(pre.data)
    /\ pre.storage # NoItem

\* the retrieval started by the findEcho call of the previous step
JustSubmitted(k) ==
    /\ pre.set
    /\ Len(retrievals) = pre.requests + 1
    /\ k = Len(retrievals)

\* C3: when a retrieval submitted from the input view fails, the view remains
\* 'input', the error message is set, and result, input, artifact image and
\* the persisted snapshot are the same as before the submit.
C3_FailedSubmitMutatesNothingElse ==
    [][\A k \in DOMAIN retrievals :
          (RetrievalFailure(k) /\ JustSubmitted(k) /\ pre.view = "input") =>
              /\ view' = "input"
              /\ error' # ""
              /\ data' = pre.data
              /\ input' = pre.input
              /\ synthesisImage' = pre.synthesisImage
              /\ storage' = pre.storage]_vars

\* C4: when a reshuffle in the echo view with a result held fails, the result
\* is retained, the view remains 'echo', and only the error message changes;
\* a held artifact image is not changed.
C4_FailedReshuffleOnlySetsError ==
    [][\A k \in DOMAIN retrievals :
          (RetrievalFailure(k) /\ JustSubmitted(k)
              /\ pre.view = "echo" /\ Truthy(pre.data)) =>
              /\ view' = "echo"
              /\ error' # ""
              /\ data' = pre.data
              /\ input' = pre.input
              /\ loading' = pre.loading
              /\ synthesisImage' = pre.synthesisImage]_vars

\* C5: the view enters 'artifact' by a synthesis success only from
\* 'synthesizing'; 'synthesizing' is entered (after startup) only from 'echo'
\* by generateArtifact, which moves there before the image request resolves.
C5_ArtifactOnlyViaSynthesizing ==
    [][/\ \A k \in DOMAIN syntheses : ImageLoad(k) => view = "synthesizing"
       /\ (mounted /\ view # "synthesizing" /\ view' = "synthesizing") =>
              /\ generateArtifact
              /\ view = "echo"
              /\ syntheses'[Len(syntheses')].stage = "request"]_vars

\* C6: when a synthesis fails (rejected request or image load error) the view
\* becomes 'echo', an error message is set, the result held when the synthesis
\* started is still held, and the failure sets no artifact image.
C6_SynthesisFailureKeepsResult ==
    [][\A k \in DOMAIN syntheses :
          (ArtifactError(k) \/ ImageError(k)) =>
              /\ view' = "echo"
              /\ error' # ""
              /\ data' = syntheses[k].data
              /\ synthesisImage' = synthesisImage]_vars

\* C7: reset clears result, input and artifact image, sets the view to 'input'
\* and removes the snapshot, and from then until the next accepted submit a
\* restart restores nothing.
C7_ResetClearsUntilNextSubmit ==
    /\ [][handleReset =>
              /\ data' = JNull
              /\ input' = <<>>
              /\ synthesisImage' = JNull
              /\ view' = "input"
              /\ storage' = NoItem]_vars
    /\ [](sinceReset => RestoreSession(storage) = InitialCells)

\* C8: once the effects have run, the slot is populated if and only if the
\* in-memory result is non-absent.
C8_SlotPopulatedIffResult ==
    (mounted /\ ~crashed) => ((storage # NoItem) <=> Truthy(data))

\* C9: restoring a snapshot whose view is 'artifact' and whose artifact image
\* is missing leaves the view 'echo' with the snapshot's result.
C9_RestoreArtifactWithoutImageDegrades ==
    [][(/\ Mount
        /\ storage.kind = "json"
        /\ storage.value.t = "object"
        /\ Truthy(storage.value.data)
        /\ storage.value.view = JView("artifact")
        /\ ~Truthy(storage.value.synthesisImage)) =>
            /\ view' = "echo"
            /\ data' = storage.value.data]_vars

\* C10: whenever a result is held, restoring the persisted snapshot yields the
\* result, input and view currently held.
C10_RoundTrip ==
    (mounted /\ ~crashed /\ Truthy(data)) =>
        LET r == RestoreSession(storage) IN
            /\ r.data = data
            /\ r.input = input
            /\ r.view = view

\* one query and one synthesis have completed in a first-visit session
C10_Witness ==
    /\ mounted /\ ~crashed
    /\ view = "artifact"
    /\ data \in EchoData
    /\ synthesisImage \in ImageUrls
    /\ input # <<>>
    /\ storage # NoItem

\* C11: an async result is applied only if it belongs to the most recently
\* initiated request of its slot: while a newer retrieval (or synthesis) is
\* pending, the completion of an older one changes neither result, view,
\* artifact image nor error.
C11_OlderResultNotApplied ==
    [][/\ \A k \in DOMAIN retrievals, d \in EchoData :
             ((RetrievalSuccess(k, d) \/ RetrievalFailure(k)) /\ k < Len(retrievals)) =>
                 /\ data' = data
                 /\ view' = view
                 /\ error' = error
       /\ \A k \in DOMAIN syntheses :
             ((ImageLoad(k) \/ ImageError(k)) /\ k < Len(syntheses)) =>
                 /\ synthesisImage' = synthesisImage
                 /\ view' = view
                 /\ error' = error]_vars

\* C12: a result that arrives after the user has reset is discarded: from the
\* reset until the next accepted submit the view is 'input', no result and no
\* artifact image are held and the slot stays empty.
C12_NothingAppliedAfterReset ==
    (sinceReset /\ mounted) =>
        /\ view = "input"
        /\ data = JNull
        /\ synthesisImage = JNull
        /\ storage = NoItem

\* C13: at most one retrieval request and at most one synthesis request is in
\* flight at any time.
C13_OneRequestPerSlot ==
    /\ Len(retrievals) <= 1
    /\ Len(syntheses) <= 1

\* a Session Snapshot: a parsed object with a result and a known view
WellFormedSnapshot(slot) ==
    /\ slot.kind = "json"
    /\ slot.value.t = "object"
    /\ slot.value.data \in EchoData
    /\ slot.value.view \in {JView(v) : v \in ViewState}

\* C14: at startup every slot content that is not a well-formed snapshot is
\* treated as absent: the view is 'input', no result, no artifact image and no
\* error are held, and no render throws.
C14_MalformedSlotTreatedAsAbsent ==
    [][(Mount /\ ~WellFormedSnapshot(storage)) =>
            /\ view' = "input"
            /\ data' = JNull
            /\ input' = <<>>
            /\ synthesisImage' = JNull
            /\ error' = ""
            /\ ~crashed']_vars

\* C15: back moves 'artifact' to 'echo' and 'echo' to 'input', is a no-op in
\* the other views, changes only the view, and never leads to 'artifact' or
\* 'synthesizing' from another view.
C15_BackOneLevel ==
    [][handleBack =>
          /\ view = "artifact" => view' = "echo"
          /\ view = "echo" => view' = "input"
          /\ view \notin {"artifact", "echo"} => view' = view
          /\ view' # view => view' \notin {"artifact", "synthesizing"}
          /\ data' = data
          /\ input' = input
          /\ synthesisImage' = synthesisImage
          /\ error' = error
          /\ loading' = loading]_vars

\* back was pressed twice from the artifact view: the input view with the
\* result and the artifact image still held
C15_Witness ==
    /\ mounted /\ ~crashed
    /\ view = "input"
    /\ data \in EchoData
    /\ synthesisImage \in ImageUrls

\* C16: the view is consistent with the held data: 'echo' and 'synthesizing'
\* imply a result is held, 'artifact' implies a result and an artifact image.
C16_ViewHasItsData ==
    (mounted /\ ~crashed) =>
        /\ view \in {"echo", "synthesizing", "artifact"} => Truthy(data)
        /\ view = "artifact" => Truthy(synthesisImage)

\* C17: in a running session the artifact image is set, and the view enters
\* 'artifact', only by the onload of an image whose load was awaited, with the
\* URL of that image; a load error stores nothing.
C17_ImageStoredOnlyAfterLoad ==
    [][/\ (/\ mounted
           /\ \/ synthesisImage' # synthesisImage /\ Truthy(synthesisImage')
              \/ view' = "artifact" /\ view # "artifact") =>
              \E k \in DOMAIN syntheses :
                  /\ syntheses[k].stage = "load"
                  /\ ImageLoad(k)
                  /\ synthesisImage' = syntheses[k].imageUrl
       /\ \A k \in DOMAIN syntheses :
              ImageError(k) => synthesisImage' = synthesisImage]_vars

\* an image load has completed and nothing else is pending
C17_Witness ==
    /\ mounted /\ ~crashed
    /\ view = "artifact"
    /\ synthesisImage \in ImageUrls
    /\ syntheses = <<>>
    /\ retrievals = <<>>

\* C18: the snapshot's input field is the text of the most recent submit:
\* typing or drifting, which submit nothing, leave the input field of a
\* persisted snapshot as it was.
C18_SnapshotInputNotTypedText ==
    [][(/\ storage # NoItem
        /\ \/ \E t \in Texts : Type(t)
           \/ \E c \in DRIFT_CONCEPTS : handleDrift(c)) =>
            StoredInput(storage') = StoredInput(storage)]_vars

DownloadClick ==
    /\ Live /\ view = "artifact"
    /\ Truthy(synthesisImage) /\ Truthy(data)
    /\ card.pc \in {"idle", "done"}
    \* document.createElement('canvas'): an unsized canvas
    /\ card' = [IdleCard(card.echoes) EXCEPT !.pc = "created",
                                             !.width = 300, !.height = 150]
    /\ UNCHANGED session

\* if(!ctx) return
ContextUnavailable ==
    /\ card.pc = "created"
    /\ card' = [card EXCEPT !.pc = "done"]
    /\ UNCHANGED session

\* canvas.width = width
SetCanvasWidth ==
    /\ card.pc = "created"
    /\ card' = [card EXCEPT !.pc = "width", !.width = CARD_WIDTH]
    /\ UNCHANGED session

\* canvas.height = height
SetCanvasHeight ==
    /\ card.pc = "width"
    /\ card' = [card EXCEPT !.pc = "sized", !.height = CardHeight(card.echoes)]
    /\ UNCHANGED session

\* ctx.fillRect(0, 0, width, height), then the image starts loading
FillBackground ==
    /\ card.pc = "sized"
    /\ card' = [card EXCEPT !.pc = "loading", !.drawn = @ + 1]
    /\ UNCHANGED session

\* img.onload, then ctx.drawImage(img, 0, 0, width, width)
DrawImage ==
    /\ card.pc = "loading"
    /\ card' = [card EXCEPT !.pc = "image", !.drawn = @ + 1]
    /\ UNCHANGED session

\* img.onerror rejects; the catch block downloads the bare image
CardImageError ==
    /\ card.pc = "loading"
    /\ card' = [card EXCEPT !.pc = "done", !.file = "raw"]
    /\ UNCHANGED session

\* the thematic key at contentStartY; currentY starts one offset below it
DrawHeading ==
    /\ card.pc = "image"
    /\ card' = [card EXCEPT !.pc = "rows", !.drawn = @ + 1,
                            !.currentY = (card.width + HEADING_OFFSET) + HEADING_OFFSET]
    /\ UNCHANGED session

\* one turn of data.echoes.forEach: title, creator line, currentY += 80
DrawRow ==
    /\ card.pc = "rows" /\ card.row < card.echoes
    /\ card' = [card EXCEPT !.row = @ + 1, !.drawn = @ + 2,
                            !.currentY = @ + ROW_HEIGHT]
    /\ UNCHANGED session

\* the footer line at height - 40
DrawFooter ==
    /\ card.pc = "rows" /\ card.row = card.echoes
    /\ card' = [card EXCEPT !.pc = "footer", !.drawn = @ + 1]
    /\ UNCHANGED session

\* canvas.toDataURL succeeds and the composite is downloaded
DownloadComposite ==
    /\ card.pc = "footer"
    /\ card' = [card EXCEPT !.pc = "done", !.file = "composite"]
    /\ UNCHANGED session

\* canvas.toDataURL throws (tainted canvas); the catch block downloads the bare image
ExportError ==
    /\ card.pc = "footer"
    /\ card' = [card EXCEPT !.pc = "done", !.file = "raw"]
    /\ UNCHANGED session

NextCard ==
    \/ DownloadClick
    \/ ContextUnavailable
    \/ SetCanvasWidth
    \/ SetCanvasHeight
    \/ FillBackground
    \/ DrawImage
    \/ CardImageError
    \/ DrawHeading
    \/ DrawRow
    \/ DrawFooter
    \/ DownloadComposite
    \/ ExportError

\* the artifact view as generateArtifact leaves it, the result holding
\* between 0 and MaxEchoes echoes
InitCard ==
    /\ mounted = TRUE
    /\ crashed = FALSE
    /\ input \in {t \in Texts : Trim(t) # <<>>}
    /\ loading = FALSE
    /\ data \in EchoData
    /\ error = ""
    /\ view = "artifact"
    /\ synthesisImage \in {ImageUrl(data, s) : s \in 1..MaxSeed}
    /\ storage = Stringify(data, input, view, synthesisImage)
    /\ retrievals = <<>>
    /\ syntheses = <<>>
    /\ pre = NoPre
    /\ sinceReset = FALSE
    /\ card \in {IdleCard(n) : n \in 0..MaxEchoes}

SpecCard == InitCard /\ [][NextCard]_vars

\* C20: for a result with N echoes the canvas of the composite card is 1200
\* wide and 1200 + 150 + 80*N high (1510 for N = 2); both are set before the
\* first drawing call and hold at every later point of the routine.
C20_CardHeightFixedBeforeDrawing ==
    /\ card.pc \in {"idle", "created", "width"} => card.drawn = 0
    /\ (card.pc = "sized" \/ card.drawn > 0) =>
           /\ card.width = 1200
           /\ card.height = 1200 + 150 + (80 * card.echoes)
    /\ (card.echoes = 2 /\ card.drawn > 0) => card.height = 1510

\* a two-echo card drawn to the end and downloaded as the composite
C20_Witness ==
    /\ card.pc = "done" /\ card.file = "composite"
    /\ card.echoes = 2 /\ card.row = 2
    /\ card.height = 1510

\* {error && <div>{error}</div>}: the only place the error cell is rendered,
\* inside the block of the input view
ErrorShown(v, e) == v = "input" /\ e # ""

\* C21: a download routine that has ended has downloaded a file, the composite
\* only after every row and the footer were drawn, the bare image otherwise;
\* it never ends without a download.
C21_DownloadAlwaysYieldsFile ==
    /\ card.pc = "done" => card.file \in {"composite", "raw"}
    /\ card.file = "composite" => (card.pc = "done" /\ card.row = card.echoes)
    /\ card.pc # "done" => card.file = "none"

\* C22: a step that sets a new error message leaves the component in a view
\* that renders the message.
C22_ErrorVisibleAfterFailure ==
    [][(error' # error /\ error' # "" /\ mounted' /\ ~crashed')
           => ErrorShown(view', error')]_vars

\* C23: while the view is 'synthesizing' a synthesis request or an image load
\* is in flight, also in a session restored at startup.
C23_SynthesizingHasRequest ==
    (mounted /\ ~crashed /\ view = "synthesizing") => syntheses # <<>>

\* C24: an artifact image held together with a result, in the cells or in the
\* stored snapshot, was synthesized from that result.
C24_ImageFromHeldResult ==
    /\ (data \in EchoData /\ synthesisImage \in ImageUrls)
           => synthesisImage.prompt = data.thematic_key
    /\ (storage.kind = "json" /\ storage.value.t = "object"
           /\ storage.value.data \in EchoData
           /\ storage.value.synthesisImage \in ImageUrls)
           => storage.value.synthesisImage.prompt = storage.value.data.thematic_key

\* C25: the loading flag is true exactly while a retrieval is in flight.
C25_LoadingIffRetrievalInFlight ==
    mounted => (loading <=> retrievals # <<>>)

\* C26: after handleReset every cell has its initial value and the slot is
\* empty: no result, no text, no image, the input view, no error, not loading.
C26_ResetEqualsFreshStart ==
    [][handleReset =>
          /\ data' = JNull
          /\ input' = <<>>
          /\ view' = "input"
          /\ synthesisImage' = JNull
          /\ storage' = NoItem
          /\ error' = ""
          /\ loading' = FALSE]_vars

====
